---- MODULE Spec2Model ----
(***************************************************************************)
(* buver: a versioned backup utility.                                      *)
(*                                                                         *)
(* The model covers the file-based semaphore (csemaphore.py), the          *)
(* versions ledger (cversions.py) and the backup run of C_buver            *)
(* (cbuver.py) together with the parts of the configuration object         *)
(* (cbuconfig.py) the run reads and writes.                                *)
(*                                                                         *)
(* Names of version directories are decimal strings; a name is modelled    *)
(* as the sequence of its digits, so that int() and str() are real         *)
(* conversions: "12" is <<1, 2>>.                                          *)
(***************************************************************************)
EXTENDS Integers, Sequences, FiniteSets, TLC

(***************************************************************************)
(* Bounds of the model.                                                    *)
(***************************************************************************)
\* wait(maxtries): the code's default is 120 one-second tries
maxtries == 3
\* number of backup runs started in one behaviour
MaxRuns == 2
\* longest manifest the ledger is handed in the initial states
MaxLen == 4
\* number of backup runs started on a freshly initialized target area
FreshRuns == 4

\* the processes (one C_buver, C_semaphore, C_buconfig, C_versions each)
Procs == {1, 2}

VARIABLES
    \* ---- the target area on disk
    marker,             \* 0: buver.lock absent; p: the file process p created
    sem_path_isdir,     \* os.path.isdir(tgt_loc)
    tgt_other,          \* tgt_loc holds a file or directory that is not buver's
    logs_isdir,         \* os.path.isdir(tgt_loc/logs)
    conf_isfile,        \* os.path.isfile(tgt_loc/buver.conf)
    disk,               \* names of the directories under versions/
    files,              \* names of the regular files under versions/
    verdir_isdir,       \* os.path.isdir(tgt_loc/versions)
    conf_ver_dirs,      \* buver.conf: ver_dirs, the persisted manifest
    conf_num_versions,  \* buver.conf: num_versions
    \* ---- the objects of each process
    pc,                 \* where the process is in its run
    attempt,            \* C_semaphore.wait: local variable attempt
    sem_locked,         \* C_semaphore.sem_locked
    config,             \* C_buconfig: num_versions, logical_versions, ver_dirs
    versions,           \* C_versions: pview, sane, pruned, dirlist, keepers, nextdir
    rc,                 \* value returned by backup()
    raised,             \* an exception left backup() uncaught
    ret,                \* the last method call of the process and its result
    \* ---- history
    hist,               \* what the current run of the process has done so far
    runs,               \* number of runs that may still be started
    maxid               \* the largest version number any run has made a directory for

fsVars   == <<disk, files, verdir_isdir, conf_ver_dirs, conf_num_versions>>
lockVars == <<marker, attempt, sem_locked>>
objVars  == <<config, versions>>
tgtVars  == <<sem_path_isdir, tgt_other, logs_isdir, conf_isfile>>
runVars  == <<rc, raised, hist, runs, maxid>>
vars     == <<marker, sem_path_isdir, tgt_other, logs_isdir, conf_isfile,
              disk, files, verdir_isdir, conf_ver_dirs, conf_num_versions,
              pc, attempt, sem_locked, config, versions, rc, raised, ret, hist, runs,
              maxid>>

(***************************************************************************)
(* Python values.                                                          *)
(***************************************************************************)
\* bool results of wait() and signal(): True and False as ints
PyTrue == 1
PyFalse == 0
\* backup() falls off its end: the caller gets None
None == -1

Ret(op, val) == [op |-> op, val |-> val]
NoRet == Ret("-", None)

(***************************************************************************)
(* C_semaphore                                                             *)
(***************************************************************************)
\* a bug: the directory is not looked at, and wait() reports the semaphore taken
wait_invalid_unchecked(p) ==
    /\ ~sem_path_isdir
    /\ attempt' = [attempt EXCEPT ![p] = 1]
    /\ marker' = p
    /\ sem_locked' = [sem_locked EXCEPT ![p] = TRUE]
    /\ ret' = [ret EXCEPT ![p] = Ret("wait", PyFalse)]

\* wait(), line 57: the directory is invalid, give up at once
wait_invalid(p) ==
    /\ ~sem_path_isdir
    /\ attempt' = [attempt EXCEPT ![p] = 1]
    /\ ret' = [ret EXCEPT ![p] = Ret("wait", PyTrue)]
    /\ UNCHANGED <<marker, sem_locked>>

\* wait(), lines 53-57: attempt = 1, the directory exists
wait_enter(p) ==
    /\ sem_path_isdir
    /\ attempt' = [attempt EXCEPT ![p] = 1]
    /\ ret' = [ret EXCEPT ![p] = Ret("wait", None)]
    /\ UNCHANGED <<marker, sem_locked>>

\* a bug: the file is opened with O_CREAT alone, which succeeds on an existing file
wait_acquire_noexcl(p) ==
    /\ attempt[p] < maxtries
    /\ marker' = p
    /\ sem_locked' = [sem_locked EXCEPT ![p] = TRUE]
    /\ ret' = [ret EXCEPT ![p] = Ret("wait", PyFalse)]
    /\ UNCHANGED attempt

\* wait(), lines 60-63 and 72-79: os.open(O_CREAT|O_EXCL) creates the file,
\* the loop ends, sem_locked = True, return False
wait_acquire(p) ==
    /\ attempt[p] < maxtries
    /\ marker = 0
    /\ marker' = p
    /\ sem_locked' = [sem_locked EXCEPT ![p] = TRUE]
    /\ ret' = [ret EXCEPT ![p] = Ret("wait", PyFalse)]
    /\ UNCHANGED attempt

\* wait(), lines 60-69: the file exists, os.open raises OSError; count and sleep
wait_retry(p) ==
    /\ attempt[p] < maxtries
    /\ marker # 0
    /\ attempt' = [attempt EXCEPT ![p] = attempt[p] + 1]
    /\ UNCHANGED <<marker, sem_locked, ret>>

\* wait(), lines 60 and 74: the loop condition attempt < maxtries is false
wait_giveup(p) ==
    /\ attempt[p] >= maxtries
    /\ ret' = [ret EXCEPT ![p] = Ret("wait", PyTrue)]
    /\ UNCHANGED <<marker, attempt, sem_locked>>

\* a bug: the flag is cleared and the file is left behind
signal_keeps_file(p) ==
    /\ IF sem_locked[p]
       THEN /\ sem_locked' = [sem_locked EXCEPT ![p] = FALSE]
            /\ ret' = [ret EXCEPT ![p] = Ret("signal", PyFalse)]
       ELSE /\ ret' = [ret EXCEPT ![p] = Ret("signal", PyTrue)]
            /\ UNCHANGED sem_locked
    /\ UNCHANGED <<marker, attempt>>

\* a bug: the file is removed whether or not this object created it
signal_unguarded(p) ==
    /\ marker' = 0
    /\ sem_locked' = [sem_locked EXCEPT ![p] = FALSE]
    /\ ret' = [ret EXCEPT ![p] = Ret("signal", PyFalse)]
    /\ UNCHANGED attempt

\* a bug: the file is removed and the flag is left set
signal_keeps_flag(p) ==
    /\ IF sem_locked[p]
       THEN /\ marker' = 0
            /\ ret' = [ret EXCEPT ![p] = Ret("signal", PyFalse)]
       ELSE /\ ret' = [ret EXCEPT ![p] = Ret("signal", PyTrue)]
            /\ UNCHANGED marker
    /\ UNCHANGED <<attempt, sem_locked>>

\* signal(), lines 90-112: not locked: return True; else close, remove the
\* file by its name, sem_locked = False, return False
signal(p) ==
    /\ IF sem_locked[p]
       THEN /\ marker' = 0
            /\ sem_locked' = [sem_locked EXCEPT ![p] = FALSE]
            /\ ret' = [ret EXCEPT ![p] = Ret("signal", PyFalse)]
       ELSE /\ ret' = [ret EXCEPT ![p] = Ret("signal", PyTrue)]
            /\ UNCHANGED <<marker, sem_locked>>
    /\ UNCHANGED attempt

\* got_sem()
got_sem(p) == sem_locked[p]

(***************************************************************************)
(* Names, int() and str()                                                  *)
(***************************************************************************)
Digits == 0..9

\* a character that is no digit
NonDigit == 10

\* the name int() accepts: one or more decimal digits
IsDecimal(s) == Len(s) > 0 /\ \A i \in 1..Len(s) : s[i] \in Digits

RECURSIVE int(_)
int(s) == IF Len(s) = 0 THEN 0 ELSE 10 * int(SubSeq(s, 1, Len(s) - 1)) + s[Len(s)]

RECURSIVE str(_)
str(n) == IF n < 10 THEN <<n>> ELSE Append(str(n \div 10), n % 10)

\* x in lst
InList(x, lst) == \E i \in 1..Len(lst) : lst[i] = x

\* set(lst)
SetOf(lst) == {lst[i] : i \in 1..Len(lst)}

\* lst[-k:] for k > 0: Python clamps the start index at 0
PySliceLast(lst, k) ==
    LET n == Len(lst)
        start == IF n - k > 0 THEN n - k ELSE 0
    IN  SubSeq(lst, start + 1, n)

\* lst[-1]
PyLast(lst) == lst[Len(lst)]

\* os.path.join(self.verdir, name)
JoinVerdir(name) == [dir |-> "versions", name |-> name]

\* the name INVALID_STATE, which is no decimal string
INVALID_STATE == <<NonDigit>>

(***************************************************************************)
(* C_versions                                                              *)
(***************************************************************************)
\* the attributes keepers and nextdir do not exist before sanify() sets them
NoAttr == <<>>
NoPath == [dir |-> "", name |-> <<>>]

\* no C_versions object has been constructed
NoVersions ==
    [made |-> FALSE, pview |-> FALSE, sane |-> FALSE, pruned |-> FALSE,
     dirlist |-> {}, keepers |-> NoAttr, nextdir |-> NoPath]

\* a bug: a versions directory that does not exist counts as one without versions
NewVersionsAssumeEmpty ==
    [made |-> TRUE, pview |-> TRUE, sane |-> FALSE, pruned |-> FALSE,
     dirlist |-> IF verdir_isdir THEN disk ELSE {}, keepers |-> NoAttr, nextdir |-> NoPath]

\* __init__ and load_disk_versions(): the directories under versions/, if it exists
NewVersions ==
    IF verdir_isdir
    THEN [made |-> TRUE, pview |-> TRUE, sane |-> FALSE, pruned |-> FALSE,
          dirlist |-> disk, keepers |-> NoAttr, nextdir |-> NoPath]
    ELSE [made |-> TRUE, pview |-> FALSE, sane |-> FALSE, pruned |-> FALSE,
          dirlist |-> {}, keepers |-> NoAttr, nextdir |-> NoPath]

\* a bug: the directories on disk that are not listed are not counted
MismatchC0Skipped(v, logical_versions) == 0

\* sanify(), lines 71-86: the two counts of mismatches
MismatchC0(v, logical_versions) ==
    Cardinality({version \in v.dirlist : ~InList(version, logical_versions)})

\* a bug: the versions listed but missing on disk are not counted
MismatchC1Skipped(v, logical_versions) == 0

MismatchC1(v, logical_versions) ==
    Cardinality({i \in 1..Len(logical_versions) : logical_versions[i] \notin v.dirlist})

\* sanify(), lines 76-78: the names reported as on disk but not in the config file
MsgUnlisted(v, logical_versions) ==
    IF v.pview THEN {version \in v.dirlist : ~InList(version, logical_versions)} ELSE {}

\* sanify(), lines 83-85: the names reported as in the config file but not on disk
MsgMissing(v, logical_versions) ==
    IF v.pview
    THEN {logical_versions[i] :
              i \in {j \in 1..Len(logical_versions) : logical_versions[j] \notin v.dirlist}}
    ELSE {}

\* a bug: keep is not reduced by the version this run adds
KeepOffByOne(num_versions) == num_versions

\* sanify(), line 96
Keep(num_versions) == num_versions - 1

\* a bug: the leading entries are kept in place of the trailing ones
KeepersWindowHead(num_versions, logical_versions) ==
    IF Keep(num_versions) > 0
    THEN SubSeq(logical_versions, 1,
                IF Keep(num_versions) < Len(logical_versions)
                THEN Keep(num_versions) ELSE Len(logical_versions))
    ELSE <<>>

\* sanify(), lines 100-107: the versions of the manifest that are kept
KeepersWindow(num_versions, logical_versions) ==
    IF Keep(num_versions) > 0
    THEN PySliceLast(logical_versions, Keep(num_versions))
    ELSE <<>>

\* a bug: the next name is the number of versions plus one
NextNameByCount(logical_versions) == str(Len(logical_versions) + 1)

\* a bug: the next name is the smallest number the manifest does not hold
NextNameFirstFree(logical_versions) ==
    str(CHOOSE k \in 1..(Len(logical_versions) + 1) :
            /\ ~InList(str(k), logical_versions)
            /\ \A j \in 1..(k - 1) : InList(str(j), logical_versions))

\* sanify(), lines 111-116: the name of the version this run adds
NextName(logical_versions) ==
    IF Len(logical_versions) > 0
    THEN str(int(PyLast(logical_versions)) + 1)
    ELSE <<1>>

\* sanify(num_versions, logical_versions) on the object v: the object after
\* the call, the value returned, and whether int() raised ValueError
Sanify(v, num_versions, logical_versions) ==
    IF ~v.pview
    THEN [v |-> v, rc |-> 1, raised |-> FALSE]
    ELSE IF MismatchC0(v, logical_versions) # 0 \/ MismatchC1(v, logical_versions) # 0
    THEN [v |-> v, rc |-> 2, raised |-> FALSE]
    ELSE IF Len(logical_versions) > 0 /\ ~IsDecimal(PyLast(logical_versions))
    THEN [v |-> [v EXCEPT !.keepers = KeepersWindow(num_versions, logical_versions)],
          rc |-> None, raised |-> TRUE]
    ELSE LET keepers == Append(KeepersWindow(num_versions, logical_versions),
                               NextName(logical_versions))
             nextdir == JoinVerdir(PyLast(keepers))
             w == [v EXCEPT !.keepers = keepers, !.nextdir = nextdir]
         IN  IF nextdir.name \in disk
             THEN [v |-> w, rc |-> 3, raised |-> FALSE]
             ELSE [v |-> [w EXCEPT !.sane = TRUE], rc |-> 0, raised |-> FALSE]

\* a bug: keepers is the caller's list itself when the slice takes all of it,
\* and the append of the next name lands in the caller's list
ManifestAfterSanifyAliased(v, num_versions, logical_versions) ==
    IF /\ v.pview
       /\ MismatchC0(v, logical_versions) = 0 /\ MismatchC1(v, logical_versions) = 0
       /\ Len(logical_versions) > 0 /\ IsDecimal(PyLast(logical_versions))
       /\ Keep(num_versions) >= Len(logical_versions)
    THEN Append(logical_versions, NextName(logical_versions))
    ELSE logical_versions

\* sanify(), lines 99-115: the caller's list once sanify() has returned; keepers
\* is a new list (a slice copies, and so does []), so the append at line 113 or
\* 115 does not reach the list the caller passed
ManifestAfterSanify(v, num_versions, logical_versions) == logical_versions

\* a bug: the list is returned whether or not sanify() succeeded
new_ver_dirs_unguarded(v) == v.keepers

\* the orders in which os.listdir() may return the directories in S
RECURSIVE Listings(_)
Listings(S) ==
    IF S = {} THEN {<<>>}
    ELSE UNION {{<<x>> \o t : t \in Listings(S \ {x})} : x \in S}

\* a bug: the first loop stops after the first directory listed
SeqC0FirstOnly(dirlist, logical_versions) ==
    IF Len(dirlist) > 0 /\ ~InList(dirlist[1], logical_versions) THEN 1 ELSE 0

\* sanify(), lines 76-79, on the list dirlist as os.listdir() returned it
SeqC0(dirlist, logical_versions) ==
    Cardinality({i \in 1..Len(dirlist) : ~InList(dirlist[i], logical_versions)})

\* sanify(), lines 83-86
SeqC1(dirlist, logical_versions) ==
    Cardinality({i \in 1..Len(logical_versions) : ~InList(logical_versions[i], dirlist)})

\* sanify() on an object whose dirlist is the list given: the value returned,
\* whether int() raised, the attributes keepers and nextdir it sets, and whether
\* it sets sane
SanifySeq(pview, dirlist, num_versions, logical_versions) ==
    IF ~pview
    THEN [rc |-> 1, raised |-> FALSE, keepers |-> NoAttr, nextdir |-> NoPath, sets_sane |-> FALSE]
    ELSE IF SeqC0(dirlist, logical_versions) # 0 \/ SeqC1(dirlist, logical_versions) # 0
    THEN [rc |-> 2, raised |-> FALSE, keepers |-> NoAttr, nextdir |-> NoPath, sets_sane |-> FALSE]
    ELSE LET keep == num_versions - 1
             kept == IF keep > 0 THEN PySliceLast(logical_versions, keep) ELSE <<>>
         IN  IF Len(logical_versions) > 0 /\ ~IsDecimal(PyLast(logical_versions))
             THEN [rc |-> None, raised |-> TRUE, keepers |-> kept, nextdir |-> NoPath,
                   sets_sane |-> FALSE]
             ELSE LET keepers == Append(kept,
                                        IF Len(logical_versions) > 0
                                        THEN str(int(PyLast(logical_versions)) + 1)
                                        ELSE <<1>>)
                      nextdir == JoinVerdir(PyLast(keepers))
                  IN  IF nextdir.name \in disk
                      THEN [rc |-> 3, raised |-> FALSE, keepers |-> keepers,
                            nextdir |-> nextdir, sets_sane |-> FALSE]
                      ELSE [rc |-> 0, raised |-> FALSE, keepers |-> keepers,
                            nextdir |-> nextdir, sets_sane |-> TRUE]

\* new_ver_dirs()
new_ver_dirs(v) == IF v.sane THEN v.keepers ELSE <<>>

\* new_version()
new_version(v) == IF v.sane THEN v.nextdir ELSE JoinVerdir(INVALID_STATE)

\* prune(): the value returned
PruneRc(v) == IF ~v.sane THEN 1 ELSE IF v.pruned THEN 2 ELSE 0

\* a bug: every directory found is removed
PruneTargetsAll(v) == IF PruneRc(v) = 0 THEN v.dirlist ELSE {}

\* prune(), lines 164-170: the directories handed to rm -rf
PruneTargets(v) ==
    IF PruneRc(v) = 0
    THEN {version \in v.dirlist : ~InList(version, v.keepers)}
    ELSE {}

\* prune() on the object of process p; rm -rf removes the directories in
\* gone, and fails on the other targets (the exit status is not looked at)
prune(p, gone) ==
    /\ gone \subseteq PruneTargets(versions[p])
    /\ disk' = disk \ gone
    /\ versions' = [versions EXCEPT ![p].pruned = (PruneRc(versions[p]) = 0) \/ @]
    /\ ret' = [ret EXCEPT ![p] = Ret("prune", PruneRc(versions[p]))]

(***************************************************************************)
(* C_buconfig                                                              *)
(***************************************************************************)
\* the dictionary is empty
NoConfig ==
    [loaded |-> FALSE, num_versions |-> 0, logical_versions |-> <<>>, ver_dirs |-> <<>>]

\* validate(), lines 154-158: num_versions out of 1..10 becomes 10
ValidNumVersions(n) == IF n < 1 \/ n > 10 THEN 10 ELSE n

\* load() of buver.conf followed by validate(): logical_versions = eval(ver_dirs)
LoadedConfig ==
    [loaded |-> TRUE, num_versions |-> ValidNumVersions(conf_num_versions),
     logical_versions |-> conf_ver_dirs, ver_dirs |-> conf_ver_dirs]

(***************************************************************************)
(* History of a run                                                        *)
(***************************************************************************)
NoHist ==
    [tries |-> 0,               \* calls of os.open made by the current wait()
     acquired |-> FALSE,        \* wait() returned False
     startOK |-> FALSE,         \* on acquiring, disk = set(persisted manifest)
     conf_before |-> <<>>,      \* the persisted manifest on acquiring
     released |-> FALSE,        \* signal() removed the marker file
     endOK |-> FALSE,           \* on releasing, disk = set(persisted manifest)
     sanify |-> None,           \* value returned by sanify()
     mismatch |-> FALSE,        \* when sanify() ran, dirlist # set(manifest)
     unlisted |-> {},           \* names sanify() reported as not in the config file
     missing |-> {},            \* names sanify() reported as not on disk
     attempted |-> {},          \* directories prune() handed to rm -rf
     deleted |-> {},            \* directories rm -rf removed
     created |-> {},            \* directories os.mkdir created
     archive |-> "none",        \* backup_version(): none, ok, failed, raised
     cmd_run |-> FALSE,         \* os.system(cmd_str) was run
     set_ver_dirs |-> FALSE,    \* set_ver_dirs() was called
     save |-> "none",           \* config.save(): none, ok, failed
     found |-> <<0, 0>>,        \* what check_dir() returned to initialize()
     made |-> {}]               \* what initialize() created: tgt, logs, versions, conf

(***************************************************************************)
(* The states a target area is found in                                    *)
(***************************************************************************)
Pool == {<<1>>, <<2>>, <<3>>, <<4>>}

\* the manifests of up to MaxLen names of the pool, and a few with other names
PoolManifests == UNION {[1..n -> Pool] : n \in 0..MaxLen}
OtherManifests == {<< <<7>> >>, << <<9>> >>, << <<0, 7>> >>, << <<1, 9>> >>,
                   << <<1>>, <<NonDigit>> >>}
Manifests == PoolManifests \cup OtherManifests

\* the directory sets that differ from a manifest by at most one name on
\* either side
NearDisks(lv) ==
    LET S == SetOf(lv)
        U == (Pool \cup S) \ S
    IN  {S} \cup {S \ {x} : x \in S} \cup {S \cup {y} : y \in U}
            \cup {(S \ {x}) \cup {y} : <<x, y>> \in S \X U}

\* the values of num_versions a configuration file is given: 1..10 and one
\* value out of range either side
NumVersions == 0..11

(***************************************************************************)
(* The ledger, called method by method                                     *)
(***************************************************************************)
LedgerProcs == {1}

InitLedger ==
    /\ marker = 0
    /\ sem_path_isdir = TRUE
    /\ tgt_other = FALSE
    /\ logs_isdir = TRUE
    /\ conf_isfile = TRUE
    /\ maxid = 0
    /\ verdir_isdir \in BOOLEAN
    /\ conf_ver_dirs \in Manifests
    /\ conf_num_versions \in NumVersions
    /\ disk \in (IF verdir_isdir THEN NearDisks(conf_ver_dirs) ELSE {{}})
    /\ files = {}
    /\ pc = [p \in Procs |-> "idle"]
    /\ attempt = [p \in Procs |-> 1]
    /\ sem_locked = [p \in Procs |-> FALSE]
    /\ config = [p \in Procs |-> LoadedConfig]
    /\ versions = [p \in Procs |-> NoVersions]
    /\ rc = [p \in Procs |-> None]
    /\ raised = [p \in Procs |-> FALSE]
    /\ ret = [p \in Procs |-> NoRet]
    /\ hist = [p \in Procs |-> NoHist]
    /\ runs = 0

\* C_versions(msg, tgt_versions)
LedgerNew(p) ==
    /\ versions' = [versions EXCEPT ![p] = NewVersions]
    /\ ret' = [ret EXCEPT ![p] = Ret("new", None)]
    /\ hist' = [hist EXCEPT ![p] = NoHist]
    /\ UNCHANGED <<marker, tgtVars, fsVars, pc, attempt, sem_locked, config,
                   rc, raised, runs, maxid>>

\* sanify(num_versions, logical_versions)
LedgerSanify(p) ==
    /\ versions[p].made
    /\ LET r == Sanify(versions[p], config[p].num_versions, config[p].logical_versions)
       IN  /\ versions' = [versions EXCEPT ![p] = r.v]
           /\ ret' = [ret EXCEPT ![p] = Ret(IF r.raised THEN "sanify raised" ELSE "sanify",
                                            r.rc)]
    /\ config' = [config EXCEPT ![p].logical_versions =
                      ManifestAfterSanify(versions[p], config[p].num_versions, @)]
    /\ hist' = [hist EXCEPT ![p].unlisted = MsgUnlisted(versions[p], config[p].logical_versions),
                             ![p].missing = MsgMissing(versions[p], config[p].logical_versions)]
    /\ UNCHANGED <<marker, tgtVars, fsVars, pc, attempt, sem_locked,
                   rc, raised, runs, maxid>>

\* prune()
LedgerPrune(p) ==
    /\ versions[p].made
    /\ \E gone \in SUBSET PruneTargets(versions[p]) :
          /\ prune(p, gone)
          /\ hist' = [hist EXCEPT ![p].attempted = @ \cup PruneTargets(versions[p]),
                                   ![p].deleted = @ \cup gone]
    /\ UNCHANGED <<marker, tgtVars, files, verdir_isdir, conf_ver_dirs,
                   conf_num_versions, pc, attempt, sem_locked, config, rc, raised, runs, maxid>>

NextLedger == \E p \in LedgerProcs : LedgerNew(p) \/ LedgerSanify(p) \/ LedgerPrune(p)

SpecLedger == InitLedger /\ [][NextLedger]_vars

(***************************************************************************)
(* The ledger called again after its caller made the next directory        *)
(***************************************************************************)
\* the areas of InitLedger that have a versions directory, a manifest of small
\* names and a num_versions of 1, 2 or 3
InitRevalidate ==
    /\ InitLedger
    /\ verdir_isdir
    /\ Len(conf_ver_dirs) <= 2
    /\ SetOf(conf_ver_dirs) \subseteq {<<1>>, <<2>>}
    /\ conf_num_versions \in {1, 2, 3}

\* mkdir(new_version()), as backup() calls it once sanify() returned 0
LedgerMkdir(p) ==
    /\ versions[p].sane
    /\ LET name == new_version(versions[p]).name
       IN  IF name \notin disk \cup files
           THEN /\ disk' = disk \cup {name}
                /\ hist' = [hist EXCEPT ![p].created = @ \cup {name}]
                /\ maxid' = IF int(name) > maxid THEN int(name) ELSE maxid
                /\ ret' = [ret EXCEPT ![p] = Ret("mkdir", 0)]
           ELSE /\ ret' = [ret EXCEPT ![p] = Ret("mkdir", 1)]
                /\ UNCHANGED <<disk, hist, maxid>>
    /\ UNCHANGED <<marker, tgtVars, files, verdir_isdir, conf_ver_dirs,
                   conf_num_versions, pc, attempt, sem_locked, objVars, rc, raised, runs>>

NextRevalidate ==
    \E p \in LedgerProcs :
        LedgerNew(p) \/ LedgerSanify(p) \/ LedgerPrune(p) \/ LedgerMkdir(p)

SpecRevalidate == InitRevalidate /\ [][NextRevalidate]_vars

(***************************************************************************)
(* The semaphore, called method by method by one instance per process      *)
(***************************************************************************)
InitLock ==
    /\ marker = 0
    /\ sem_path_isdir \in BOOLEAN
    /\ tgt_other = FALSE
    /\ logs_isdir = FALSE
    /\ conf_isfile = FALSE
    /\ maxid = 0
    /\ verdir_isdir = FALSE
    /\ conf_ver_dirs = <<>>
    /\ conf_num_versions = 10
    /\ disk = {}
    /\ files = {}
    /\ pc = [p \in Procs |-> "idle"]
    /\ attempt = [p \in Procs |-> 1]
    /\ sem_locked = [p \in Procs |-> FALSE]
    /\ config = [p \in Procs |-> NoConfig]
    /\ versions = [p \in Procs |-> NoVersions]
    /\ rc = [p \in Procs |-> None]
    /\ raised = [p \in Procs |-> FALSE]
    /\ ret = [p \in Procs |-> NoRet]
    /\ hist = [p \in Procs |-> NoHist]
    /\ runs = 0

\* wait() is called and returns at once: the directory does not exist
LockWaitInvalid(p) ==
    /\ pc[p] = "idle"
    /\ wait_invalid(p)
    /\ hist' = [hist EXCEPT ![p].tries = 0]
    /\ UNCHANGED <<tgtVars, fsVars, pc, objVars, rc, raised, runs, maxid>>

\* wait() is called and enters its loop
LockWaitEnter(p) ==
    /\ pc[p] = "idle"
    /\ wait_enter(p)
    /\ pc' = [pc EXCEPT ![p] = "wait"]
    /\ hist' = [hist EXCEPT ![p].tries = 0]
    /\ UNCHANGED <<tgtVars, fsVars, objVars, rc, raised, runs, maxid>>

\* one try of the loop creates the file; wait() returns False
LockWaitAcquire(p) ==
    /\ pc[p] = "wait"
    /\ wait_acquire(p)
    /\ pc' = [pc EXCEPT ![p] = "idle"]
    /\ hist' = [hist EXCEPT ![p].tries = @ + 1]
    /\ UNCHANGED <<tgtVars, fsVars, objVars, rc, raised, runs, maxid>>

\* one try of the loop finds the file
LockWaitRetry(p) ==
    /\ pc[p] = "wait"
    /\ wait_retry(p)
    /\ hist' = [hist EXCEPT ![p].tries = @ + 1]
    /\ UNCHANGED <<tgtVars, fsVars, pc, objVars, rc, raised, runs, maxid>>

\* the tries are used up; wait() returns True
LockWaitGiveUp(p) ==
    /\ pc[p] = "wait"
    /\ wait_giveup(p)
    /\ pc' = [pc EXCEPT ![p] = "idle"]
    /\ UNCHANGED <<tgtVars, fsVars, objVars, runVars>>

\* signal() is called
LockSignal(p) ==
    /\ pc[p] = "idle"
    /\ signal(p)
    /\ UNCHANGED <<tgtVars, fsVars, pc, objVars, runVars>>

NextLock ==
    \E p \in Procs :
        \/ LockWaitInvalid(p)
        \/ LockWaitEnter(p)
        \/ LockWaitAcquire(p)
        \/ LockWaitRetry(p)
        \/ LockWaitGiveUp(p)
        \/ LockSignal(p)

SpecLock == InitLock /\ [][NextLock]_vars

(***************************************************************************)
(* C_buver: backup runs, one process each                                  *)
(***************************************************************************)
WfPool == {<<1>>, <<2>>}
WfManifests == UNION {[1..n -> WfPool] : n \in 0..2}
WfNumVersions == {1, 2, 3}

Init ==
    /\ marker = 0
    /\ sem_path_isdir = TRUE
    /\ tgt_other = FALSE
    /\ logs_isdir = TRUE
    /\ conf_isfile = TRUE
    /\ maxid = 0
    /\ verdir_isdir = TRUE
    /\ conf_ver_dirs \in WfManifests
    /\ conf_num_versions \in WfNumVersions
    /\ disk \in SUBSET WfPool
    /\ files \in {{}, {<<3>>}}
    /\ pc = [p \in Procs |-> "idle"]
    /\ attempt = [p \in Procs |-> 1]
    /\ sem_locked = [p \in Procs |-> FALSE]
    /\ config = [p \in Procs |-> NoConfig]
    /\ versions = [p \in Procs |-> NoVersions]
    /\ rc = [p \in Procs |-> None]
    /\ raised = [p \in Procs |-> FALSE]
    /\ ret = [p \in Procs |-> NoRet]
    /\ hist = [p \in Procs |-> NoHist]
    /\ runs = MaxRuns

\* the state of the target area matches: I1
DiskMatchesConf == disk = SetOf(conf_ver_dirs)

\* a process is started: C_buver.__init__ makes the semaphore object
BackupNew(p) ==
    /\ pc[p] \in {"idle", "exited"}
    /\ runs > 0
    /\ runs' = runs - 1
    /\ pc' = [pc EXCEPT ![p] = "execute"]
    /\ sem_locked' = [sem_locked EXCEPT ![p] = FALSE]
    /\ attempt' = [attempt EXCEPT ![p] = 1]
    /\ config' = [config EXCEPT ![p] = NoConfig]
    /\ versions' = [versions EXCEPT ![p] = NoVersions]
    /\ rc' = [rc EXCEPT ![p] = None]
    /\ raised' = [raised EXCEPT ![p] = FALSE]
    /\ ret' = [ret EXCEPT ![p] = NoRet]
    /\ hist' = [hist EXCEPT ![p] = NoHist]
    /\ UNCHANGED <<marker, tgtVars, fsVars, maxid>>

\* execute() calls backup(), which calls wait()
BackupWaitEnter(p) ==
    /\ pc[p] = "execute"
    /\ wait_enter(p)
    /\ pc' = [pc EXCEPT ![p] = "wait"]
    /\ UNCHANGED <<tgtVars, fsVars, objVars, runVars>>

\* backup(), line 197: wait() got the semaphore
BackupWaitAcquire(p) ==
    /\ pc[p] = "wait"
    /\ wait_acquire(p)
    /\ pc' = [pc EXCEPT ![p] = "load"]
    /\ hist' = [hist EXCEPT ![p].tries = @ + 1,
                             ![p].acquired = TRUE,
                             ![p].startOK = DiskMatchesConf,
                             ![p].conf_before = conf_ver_dirs]
    /\ UNCHANGED <<tgtVars, fsVars, objVars, rc, raised, runs, maxid>>

BackupWaitRetry(p) ==
    /\ pc[p] = "wait"
    /\ wait_retry(p)
    /\ hist' = [hist EXCEPT ![p].tries = @ + 1]
    /\ UNCHANGED <<tgtVars, fsVars, pc, objVars, rc, raised, runs, maxid>>

\* a bug: the result of wait() is not looked at, and the run goes on
BackupWaitGiveUpIgnored(p) ==
    /\ pc[p] = "wait"
    /\ wait_giveup(p)
    /\ pc' = [pc EXCEPT ![p] = "load"]
    /\ UNCHANGED <<tgtVars, fsVars, objVars, rc, raised, hist, runs, maxid>>

\* backup(), lines 197-199: wait() failed, return 1
BackupWaitGiveUp(p) ==
    /\ pc[p] = "wait"
    /\ wait_giveup(p)
    /\ rc' = [rc EXCEPT ![p] = 1]
    /\ pc' = [pc EXCEPT ![p] = "mailer"]
    /\ UNCHANGED <<tgtVars, fsVars, objVars, raised, hist, runs, maxid>>

\* backup(), lines 202-211: the configuration loads and validates
BackupLoadOk(p) ==
    /\ pc[p] = "load"
    /\ config' = [config EXCEPT ![p] = LoadedConfig]
    /\ pc' = [pc EXCEPT ![p] = "scan"]
    /\ UNCHANGED <<marker, tgtVars, fsVars, attempt, sem_locked, versions,
                   rc, raised, ret, hist, runs, maxid>>

\* backup(), lines 205-208: load() returns non-zero (src_dir is no directory,
\* or is nested with tgt_loc, or the file cannot be read): signal(), return 2
BackupLoadFail(p) ==
    /\ pc[p] = "load"
    /\ signal(p)
    /\ rc' = [rc EXCEPT ![p] = 2]
    /\ pc' = [pc EXCEPT ![p] = "mailer"]
    /\ hist' = [hist EXCEPT ![p].released = sem_locked[p],
                             ![p].endOK = DiskMatchesConf]
    /\ UNCHANGED <<tgtVars, fsVars, objVars, raised, runs, maxid>>

\* backup(), line 205: validate() raises (val[0] of an empty src_dir, a missing
\* key, int() of a num_versions that is no number); nothing catches it
BackupLoadRaise(p) ==
    /\ pc[p] = "load"
    /\ raised' = [raised EXCEPT ![p] = TRUE]
    /\ pc' = [pc EXCEPT ![p] = "atexit"]
    /\ UNCHANGED <<marker, tgtVars, fsVars, attempt, sem_locked, objVars,
                   rc, ret, hist, runs, maxid>>

\* backup(), line 214: the versions object scans the disk
BackupScan(p) ==
    /\ pc[p] = "scan"
    /\ versions' = [versions EXCEPT ![p] = NewVersions]
    /\ pc' = [pc EXCEPT ![p] = "sanify"]
    /\ UNCHANGED <<marker, tgtVars, fsVars, attempt, sem_locked, config,
                   rc, raised, ret, hist, runs, maxid>>

\* backup(), lines 217-219: sanify(); a non-zero result returns 3
BackupSanify(p) ==
    /\ pc[p] = "sanify"
    /\ LET r == Sanify(versions[p], config[p].num_versions, config[p].logical_versions)
       IN  /\ versions' = [versions EXCEPT ![p] = r.v]
           /\ ret' = [ret EXCEPT ![p] = Ret(IF r.raised THEN "sanify raised" ELSE "sanify",
                                            r.rc)]
           /\ hist' = [hist EXCEPT ![p].sanify = r.rc,
                                    ![p].mismatch =
                                        versions[p].dirlist # SetOf(config[p].logical_versions),
                                    ![p].unlisted =
                                        MsgUnlisted(versions[p], config[p].logical_versions),
                                    ![p].missing =
                                        MsgMissing(versions[p], config[p].logical_versions)]
           /\ raised' = [raised EXCEPT ![p] = r.raised]
           /\ rc' = [rc EXCEPT ![p] = IF ~r.raised /\ r.rc # 0 THEN 3 ELSE @]
           /\ pc' = [pc EXCEPT ![p] = IF r.raised THEN "atexit"
                                      ELSE IF r.rc # 0 THEN "mailer" ELSE "prune"]
    /\ config' = [config EXCEPT ![p].logical_versions =
                      ManifestAfterSanify(versions[p], config[p].num_versions, @)]
    /\ UNCHANGED <<marker, tgtVars, fsVars, attempt, sem_locked, runs, maxid>>

\* backup(), lines 222-224: prune(); a non-zero result returns 4
BackupPrune(p) ==
    /\ pc[p] = "prune"
    /\ \E gone \in SUBSET PruneTargets(versions[p]) :
          /\ prune(p, gone)
          /\ hist' = [hist EXCEPT ![p].attempted = @ \cup PruneTargets(versions[p]),
                                   ![p].deleted = @ \cup gone]
    /\ rc' = [rc EXCEPT ![p] = IF PruneRc(versions[p]) # 0 THEN 4 ELSE @]
    /\ pc' = [pc EXCEPT ![p] = IF PruneRc(versions[p]) # 0 THEN "mailer" ELSE "mkdir"]
    /\ UNCHANGED <<marker, tgtVars, files, verdir_isdir, conf_ver_dirs,
                   conf_num_versions, attempt, sem_locked, config, raised, runs, maxid>>

\* mkdir(), lines 79-85, of backup() line 227: the directory is made
BackupMkdirOk(p) ==
    /\ pc[p] = "mkdir"
    /\ LET name == new_version(versions[p]).name
       IN  /\ name \notin disk \cup files
           /\ disk' = disk \cup {name}
           /\ hist' = [hist EXCEPT ![p].created = @ \cup {name}]
           /\ maxid' = IF int(name) > maxid THEN int(name) ELSE maxid
    /\ ret' = [ret EXCEPT ![p] = Ret("mkdir", 0)]
    /\ pc' = [pc EXCEPT ![p] = "archive"]
    /\ UNCHANGED <<marker, tgtVars, files, verdir_isdir, conf_ver_dirs,
                   conf_num_versions, attempt, sem_locked, objVars, rc, raised, runs>>

\* backup(), lines 227-229: os.mkdir raises OSError (the name exists, as a file
\* or a directory, or the directory cannot be written): return 5
BackupMkdirFail(p) ==
    /\ pc[p] = "mkdir"
    /\ ret' = [ret EXCEPT ![p] = Ret("mkdir", 1)]
    /\ rc' = [rc EXCEPT ![p] = 5]
    /\ pc' = [pc EXCEPT ![p] = "mailer"]
    /\ UNCHANGED <<marker, tgtVars, fsVars, attempt, sem_locked, objVars,
                   raised, hist, runs, maxid>>

\* the ways backup_version() ends: os.chdir raises OSError (it never returns a
\* true value), no command string (9999), a command that is a comment (0, not
\* run), os.system returning 0, os.system returning non-zero
ArchiveOutcomes == {"chdir raises", "no command", "comment", "ran ok", "ran failed"}

ArchiveRc(o) == IF o = "no command" THEN 9999
                ELSE IF o = "ran failed" THEN 256
                ELSE IF o = "chdir raises" THEN None ELSE 0

\* backup(), lines 232-234, and backup_version(): the result is only logged
BackupVersion(p) ==
    /\ pc[p] = "archive"
    /\ \E o \in ArchiveOutcomes :
          /\ ret' = [ret EXCEPT ![p] = Ret("backup_version", ArchiveRc(o))]
          /\ raised' = [raised EXCEPT ![p] = (o = "chdir raises")]
          /\ hist' = [hist EXCEPT ![p].archive =
                                        IF o = "chdir raises" THEN "raised"
                                        ELSE IF ArchiveRc(o) = 0 THEN "ok" ELSE "failed",
                                   ![p].cmd_run = o \in {"ran ok", "ran failed"}]
          /\ pc' = [pc EXCEPT ![p] = IF o = "chdir raises" THEN "atexit" ELSE "set_ver_dirs"]
    /\ UNCHANGED <<marker, tgtVars, fsVars, attempt, sem_locked, objVars, rc, runs, maxid>>

\* a bug: the new name is added to the manifest as it was loaded
BackupSetVerDirsAppend(p) ==
    /\ pc[p] = "set_ver_dirs"
    /\ config' = [config EXCEPT ![p].ver_dirs =
                        Append(config[p].logical_versions, new_version(versions[p]).name)]
    /\ hist' = [hist EXCEPT ![p].set_ver_dirs = TRUE]
    /\ pc' = [pc EXCEPT ![p] = "save"]
    /\ UNCHANGED <<marker, tgtVars, fsVars, attempt, sem_locked, versions,
                   rc, raised, ret, runs, maxid>>

\* backup(), line 237: config.set_ver_dirs(versions.new_ver_dirs())
BackupSetVerDirs(p) ==
    /\ pc[p] = "set_ver_dirs"
    /\ config' = [config EXCEPT ![p].ver_dirs = new_ver_dirs(versions[p])]
    /\ hist' = [hist EXCEPT ![p].set_ver_dirs = TRUE]
    /\ pc' = [pc EXCEPT ![p] = "save"]
    /\ UNCHANGED <<marker, tgtVars, fsVars, attempt, sem_locked, versions,
                   rc, raised, ret, runs, maxid>>

\* backup(), line 241, and save(): the dictionary is written to buver.conf
BackupSaveOk(p) ==
    /\ pc[p] = "save"
    /\ conf_ver_dirs' = config[p].ver_dirs
    /\ conf_num_versions' = config[p].num_versions
    /\ ret' = [ret EXCEPT ![p] = Ret("save", 0)]
    /\ hist' = [hist EXCEPT ![p].save = "ok"]
    /\ pc' = [pc EXCEPT ![p] = "signal"]
    /\ UNCHANGED <<marker, tgtVars, disk, files, verdir_isdir, attempt,
                   sem_locked, objVars, rc, raised, runs, maxid>>

\* backup(), lines 241-243: save() meets an IOError: return 6
BackupSaveFail(p) ==
    /\ pc[p] = "save"
    /\ ret' = [ret EXCEPT ![p] = Ret("save", 1)]
    /\ hist' = [hist EXCEPT ![p].save = "failed"]
    /\ rc' = [rc EXCEPT ![p] = 6]
    /\ pc' = [pc EXCEPT ![p] = "mailer"]
    /\ UNCHANGED <<marker, tgtVars, fsVars, attempt, sem_locked, objVars,
                   raised, runs, maxid>>

\* backup(), line 246: signal(); the method ends without a return statement
BackupSignal(p) ==
    /\ pc[p] = "signal"
    /\ signal(p)
    /\ rc' = [rc EXCEPT ![p] = None]
    /\ hist' = [hist EXCEPT ![p].released = sem_locked[p],
                             ![p].endOK = DiskMatchesConf]
    /\ pc' = [pc EXCEPT ![p] = "mailer"]
    /\ UNCHANGED <<tgtVars, fsVars, objVars, raised, runs, maxid>>

\* execute(), lines 287-291: mailer() reads self.versions, which does not exist
\* when backup() returned before line 214 (AttributeError); then return rc
Mailer(p) ==
    /\ pc[p] = "mailer"
    /\ raised' = [raised EXCEPT ![p] = ~versions[p].made]
    /\ pc' = [pc EXCEPT ![p] = "atexit"]
    /\ UNCHANGED <<marker, tgtVars, fsVars, attempt, sem_locked, objVars,
                   rc, ret, hist, runs, maxid>>

\* a bug: no exit-time routine is registered
tgt_clean_missing(p) ==
    UNCHANGED <<marker, attempt, sem_locked, ret>>

\* tgt_clean(), registered with atexit in __init__ line 66
tgt_clean(p) == signal(p)

\* what is left of the history of a run once its process is gone
ExitHist(h) ==
    [NoHist EXCEPT !.acquired = h.acquired, !.startOK = h.startOK,
                   !.released = h.released, !.endOK = h.endOK,
                   !.found = h.found, !.made = h.made]

\* the process exits: sys.exit(rc), or the uncaught exception; atexit runs
\* tgt_clean, and the objects of the process are gone
AtExit(p) ==
    /\ pc[p] = "atexit"
    /\ tgt_clean(p)
    /\ hist' = [hist EXCEPT ![p] =
                    ExitHist([@ EXCEPT !.released = @ \/ (sem_locked[p] /\ ~sem_locked'[p]),
                                       !.endOK = IF sem_locked[p] THEN DiskMatchesConf ELSE @])]
    /\ config' = [config EXCEPT ![p] = NoConfig]
    /\ versions' = [versions EXCEPT ![p] = NoVersions]
    /\ pc' = [pc EXCEPT ![p] = "exited"]
    /\ UNCHANGED <<tgtVars, fsVars, rc, raised, runs, maxid>>

\* the exit status of the process: sys.exit(None) is 0, a traceback is 1
ExitStatus(p) == IF raised[p] THEN 1 ELSE IF rc[p] = None THEN 0 ELSE rc[p]

\* between runs the administrator edits num_versions in buver.conf
AdminSetNumVersions ==
    /\ \A p \in Procs : pc[p] \in {"idle", "exited"}
    /\ \E n \in WfNumVersions \ {conf_num_versions} : conf_num_versions' = n
    /\ UNCHANGED <<marker, tgtVars, disk, files, verdir_isdir, conf_ver_dirs,
                   pc, attempt, sem_locked, objVars, rc, raised, ret, hist, runs, maxid>>

Next ==
    \/ \E p \in Procs :
          \/ BackupNew(p)
          \/ BackupWaitEnter(p)
          \/ BackupWaitAcquire(p)
          \/ BackupWaitRetry(p)
          \/ BackupWaitGiveUp(p)
          \/ BackupLoadOk(p)
          \/ BackupLoadFail(p)
          \/ BackupLoadRaise(p)
          \/ BackupScan(p)
          \/ BackupSanify(p)
          \/ BackupPrune(p)
          \/ BackupMkdirOk(p)
          \/ BackupMkdirFail(p)
          \/ BackupVersion(p)
          \/ BackupSetVerDirs(p)
          \/ BackupSaveOk(p)
          \/ BackupSaveFail(p)
          \/ BackupSignal(p)
          \/ Mailer(p)
          \/ AtExit(p)
    \/ AdminSetNumVersions

Spec == Init /\ [][Next]_vars

\* the target area as initialize() leaves it: no version, an empty manifest
InitFresh ==
    /\ marker = 0
    /\ sem_path_isdir = TRUE
    /\ tgt_other = FALSE
    /\ logs_isdir = TRUE
    /\ conf_isfile = TRUE
    /\ maxid = 0
    /\ verdir_isdir = TRUE
    /\ conf_ver_dirs = <<>>
    /\ conf_num_versions \in WfNumVersions
    /\ disk = {}
    /\ files = {}
    /\ pc = [p \in Procs |-> "idle"]
    /\ attempt = [p \in Procs |-> 1]
    /\ sem_locked = [p \in Procs |-> FALSE]
    /\ config = [p \in Procs |-> NoConfig]
    /\ versions = [p \in Procs |-> NoVersions]
    /\ rc = [p \in Procs |-> None]
    /\ raised = [p \in Procs |-> FALSE]
    /\ ret = [p \in Procs |-> NoRet]
    /\ hist = [p \in Procs |-> NoHist]
    /\ runs = FreshRuns

SpecFresh == InitFresh /\ [][Next]_vars

(***************************************************************************)
(* C_buver: initialize runs, one process each                              *)
(***************************************************************************)
\* the target location before any run: missing, an empty directory, a
\* directory with something else in it, or an area initialized and used before
InitTarget ==
    /\ marker = 0
    /\ sem_path_isdir \in BOOLEAN
    /\ tgt_other \in (IF sem_path_isdir THEN BOOLEAN ELSE {FALSE})
    /\ logs_isdir \in (IF sem_path_isdir /\ ~tgt_other THEN BOOLEAN ELSE {FALSE})
    /\ conf_isfile = logs_isdir
    /\ verdir_isdir = logs_isdir
    /\ conf_ver_dirs \in (IF conf_isfile THEN {<<>>, << <<1>> >>} ELSE {<<>>})
    /\ conf_num_versions \in (IF conf_isfile THEN {3, 10} ELSE {10})
    /\ disk = SetOf(conf_ver_dirs)
    /\ files = {}
    /\ maxid = 0
    /\ pc = [p \in Procs |-> "idle"]
    /\ attempt = [p \in Procs |-> 1]
    /\ sem_locked = [p \in Procs |-> FALSE]
    /\ config = [p \in Procs |-> NoConfig]
    /\ versions = [p \in Procs |-> NoVersions]
    /\ rc = [p \in Procs |-> None]
    /\ raised = [p \in Procs |-> FALSE]
    /\ ret = [p \in Procs |-> NoRet]
    /\ hist = [p \in Procs |-> NoHist]
    /\ runs = 0

\* a bug: os.makedirs(dir, exist_ok=True) in place of os.mkdir(dir)
mkdir_exist_ok(exists) == 0

\* mkdir(), lines 79-85: os.mkdir raises OSError when the name exists
mkdir(exists) == IF exists THEN 1 ELSE 0

\* check_dir(tgt_loc): (-1, -1) when it is no directory, else the numbers of
\* directories and of other entries in it; the lock file is one of the entries
check_dir ==
    IF ~sem_path_isdir THEN <<-1, -1>>
    ELSE <<(IF logs_isdir THEN 1 ELSE 0) + (IF verdir_isdir THEN 1 ELSE 0),
           (IF marker # 0 THEN 1 ELSE 0) + (IF conf_isfile THEN 1 ELSE 0)
               + (IF tgt_other THEN 1 ELSE 0)>>

\* a process is started with -i: C_buver.__init__ makes the semaphore object
InitializeNew(p) ==
    /\ pc[p] = "idle"
    /\ pc' = [pc EXCEPT ![p] = "check_dir"]
    /\ sem_locked' = [sem_locked EXCEPT ![p] = FALSE]
    /\ attempt' = [attempt EXCEPT ![p] = 1]
    /\ ret' = [ret EXCEPT ![p] = Ret("new", None)]
    /\ UNCHANGED <<marker, tgtVars, fsVars, objVars, runVars>>

\* a bug: a directory that is not empty is initialized all the same
InitializeCheckAnyDir(p) ==
    /\ pc[p] = "check_dir"
    /\ hist' = [hist EXCEPT ![p].found = check_dir]
    /\ pc' = [pc EXCEPT ![p] = IF check_dir[1] = -1 THEN "mkdir_tgt" ELSE "call_wait"]
    /\ UNCHANGED <<marker, tgtVars, fsVars, attempt, sem_locked, objVars,
                   rc, raised, ret, runs, maxid>>

\* initialize(), lines 117-129: check_dir(); a directory that is not empty
\* returns 2
InitializeCheck(p) ==
    /\ pc[p] = "check_dir"
    /\ hist' = [hist EXCEPT ![p].found = check_dir]
    /\ IF check_dir[1] = -1
       THEN /\ pc' = [pc EXCEPT ![p] = "mkdir_tgt"]
            /\ UNCHANGED rc
       ELSE IF check_dir[1] > 0 \/ check_dir[2] > 0
       THEN /\ rc' = [rc EXCEPT ![p] = 2]
            /\ pc' = [pc EXCEPT ![p] = "atexit"]
       ELSE /\ pc' = [pc EXCEPT ![p] = "call_wait"]
            /\ UNCHANGED rc
    /\ UNCHANGED <<marker, tgtVars, fsVars, attempt, sem_locked, objVars,
                   raised, ret, runs, maxid>>

\* initialize(), lines 119-124: mkdir(tgt_loc); a failure returns 1
InitializeMkdirTgt(p) ==
    /\ pc[p] = "mkdir_tgt"
    /\ ret' = [ret EXCEPT ![p] = Ret("mkdir", mkdir(sem_path_isdir))]
    /\ IF mkdir(sem_path_isdir) = 0
       THEN /\ sem_path_isdir' = TRUE
            /\ hist' = [hist EXCEPT ![p].made = @ \cup {"tgt"}]
            /\ pc' = [pc EXCEPT ![p] = "call_wait"]
            /\ UNCHANGED rc
       ELSE /\ rc' = [rc EXCEPT ![p] = 1]
            /\ pc' = [pc EXCEPT ![p] = "atexit"]
            /\ UNCHANGED <<sem_path_isdir, hist>>
    /\ UNCHANGED <<marker, tgt_other, logs_isdir, conf_isfile, fsVars, attempt,
                   sem_locked, objVars, raised, runs, maxid>>

\* initialize(), line 132: wait() is called
InitializeWaitEnter(p) ==
    /\ pc[p] = "call_wait"
    /\ wait_enter(p)
    /\ pc' = [pc EXCEPT ![p] = "wait"]
    /\ UNCHANGED <<tgtVars, fsVars, objVars, runVars>>

\* initialize(), line 132: wait() got the semaphore
InitializeWaitAcquire(p) ==
    /\ pc[p] = "wait"
    /\ wait_acquire(p)
    /\ pc' = [pc EXCEPT ![p] = "mkdir_logs"]
    /\ hist' = [hist EXCEPT ![p].tries = @ + 1, ![p].acquired = TRUE]
    /\ UNCHANGED <<tgtVars, fsVars, objVars, rc, raised, runs, maxid>>

InitializeWaitRetry(p) ==
    /\ pc[p] = "wait"
    /\ wait_retry(p)
    /\ hist' = [hist EXCEPT ![p].tries = @ + 1]
    /\ UNCHANGED <<tgtVars, fsVars, pc, objVars, rc, raised, runs, maxid>>

\* initialize(), lines 132-134: wait() failed, return 3
InitializeWaitGiveUp(p) ==
    /\ pc[p] = "wait"
    /\ wait_giveup(p)
    /\ rc' = [rc EXCEPT ![p] = 3]
    /\ pc' = [pc EXCEPT ![p] = "atexit"]
    /\ UNCHANGED <<tgtVars, fsVars, objVars, raised, hist, runs, maxid>>

\* initialize(), lines 137-139: mkdir(tgt_logs); a failure returns 4 with the
\* semaphore still held
InitializeMkdirLogs(p) ==
    /\ pc[p] = "mkdir_logs"
    /\ ret' = [ret EXCEPT ![p] = Ret("mkdir", mkdir(logs_isdir))]
    /\ IF mkdir(logs_isdir) = 0
       THEN /\ logs_isdir' = TRUE
            /\ hist' = [hist EXCEPT ![p].made = @ \cup {"logs"}]
            /\ pc' = [pc EXCEPT ![p] = "mkdir_versions"]
            /\ UNCHANGED rc
       ELSE /\ rc' = [rc EXCEPT ![p] = 4]
            /\ pc' = [pc EXCEPT ![p] = "atexit"]
            /\ UNCHANGED <<logs_isdir, hist>>
    /\ UNCHANGED <<marker, sem_path_isdir, tgt_other, conf_isfile, fsVars, attempt,
                   sem_locked, objVars, raised, runs, maxid>>

\* initialize(), lines 137-139: mkdir(tgt_versions), reached when mkdir(tgt_logs)
\* returned 0
InitializeMkdirVersions(p) ==
    /\ pc[p] = "mkdir_versions"
    /\ ret' = [ret EXCEPT ![p] = Ret("mkdir", mkdir(verdir_isdir))]
    /\ IF mkdir(verdir_isdir) = 0
       THEN /\ verdir_isdir' = TRUE
            /\ hist' = [hist EXCEPT ![p].made = @ \cup {"versions"}]
            /\ pc' = [pc EXCEPT ![p] = "create"]
            /\ UNCHANGED rc
       ELSE /\ rc' = [rc EXCEPT ![p] = 4]
            /\ pc' = [pc EXCEPT ![p] = "atexit"]
            /\ UNCHANGED <<verdir_isdir, hist>>
    /\ UNCHANGED <<marker, tgtVars, disk, files, conf_ver_dirs, conf_num_versions,
                   attempt, sem_locked, objVars, raised, runs, maxid>>

\* initialize(), lines 142-145, and create(): the defaults are written to
\* buver.conf with open(name, 'w'), whatever the file held
InitializeCreateOk(p) ==
    /\ pc[p] = "create"
    /\ config' = [config EXCEPT ![p] = [NoConfig EXCEPT !.num_versions = 10]]
    /\ conf_isfile' = TRUE
    /\ conf_ver_dirs' = <<>>
    /\ conf_num_versions' = 10
    /\ hist' = [hist EXCEPT ![p].made = @ \cup {"conf"}, ![p].save = "ok"]
    /\ ret' = [ret EXCEPT ![p] = Ret("create", 0)]
    /\ rc' = [rc EXCEPT ![p] = 0]
    /\ pc' = [pc EXCEPT ![p] = "signal"]
    /\ UNCHANGED <<marker, sem_path_isdir, tgt_other, logs_isdir, disk, files,
                   verdir_isdir, attempt, sem_locked, versions, raised, runs, maxid>>

\* save(), lines 334-335: open() or write() raises IOError; create() returns 1
InitializeCreateFail(p) ==
    /\ pc[p] = "create"
    /\ config' = [config EXCEPT ![p] = [NoConfig EXCEPT !.num_versions = 10]]
    /\ hist' = [hist EXCEPT ![p].save = "failed"]
    /\ ret' = [ret EXCEPT ![p] = Ret("create", 1)]
    /\ rc' = [rc EXCEPT ![p] = 1]
    /\ pc' = [pc EXCEPT ![p] = "signal"]
    /\ UNCHANGED <<marker, tgtVars, fsVars, attempt, sem_locked, versions,
                   raised, runs, maxid>>

\* initialize(), lines 152-154: signal(), return rc
InitializeSignal(p) ==
    /\ pc[p] = "signal"
    /\ signal(p)
    /\ hist' = [hist EXCEPT ![p].released = sem_locked[p]]
    /\ pc' = [pc EXCEPT ![p] = "atexit"]
    /\ UNCHANGED <<tgtVars, fsVars, objVars, rc, raised, runs, maxid>>

NextInit ==
    \E p \in Procs :
        \/ InitializeNew(p)
        \/ InitializeCheck(p)
        \/ InitializeMkdirTgt(p)
        \/ InitializeWaitEnter(p)
        \/ InitializeWaitAcquire(p)
        \/ InitializeWaitRetry(p)
        \/ InitializeWaitGiveUp(p)
        \/ InitializeMkdirLogs(p)
        \/ InitializeMkdirVersions(p)
        \/ InitializeCreateOk(p)
        \/ InitializeCreateFail(p)
        \/ InitializeSignal(p)
        \/ AtExit(p)

SpecInit == InitTarget /\ [][NextInit]_vars

(***************************************************************************)
(* Properties of backup runs                                               *)
(***************************************************************************)
\* the steps of backup() between wait() and signal()
Critical == {"load", "scan", "sanify", "prune", "mkdir", "archive", "set_ver_dirs", "save"}

\* backup() has ended and the process is about to exit
Ended(p) == pc[p] = "atexit"

\* C2: the manifest load, the scan of versions/, the prune deletions, the
\* creation of the version directory and the manifest write of a run all happen
\* while the run holds the semaphore, so these sections of two runs never overlap,
\* and every change of versions/ or of the persisted manifest is a step of the holder.
C2_CriticalSection ==
    /\ [](\A p \in Procs : pc[p] \in Critical => got_sem(p) /\ marker = p)
    /\ [](\A p, q \in Procs : p # q => ~(pc[p] \in Critical /\ pc[q] \in Critical))
    /\ [][(disk' # disk \/ conf_ver_dirs' # conf_ver_dirs) =>
            \E p \in Procs : /\ pc[p] \in Critical /\ pc'[p] # pc[p]
                             /\ got_sem(p) /\ marker = p]_vars

\* C2 witness: one run has pruned a directory while the other run has failed a
\* try for the semaphore
C2_Witness ==
    \E p, q \in Procs :
        /\ p # q
        /\ pc[p] = "mkdir" /\ hist[p].deleted # {}
        /\ pc[q] = "wait" /\ attempt[q] > 1

\* C3: when the directories found differ from set(manifest), sanify() fails with
\* the mismatch result 2, the ledger does not become sane, backup() returns 3,
\* and the run deletes no directory, creates none, runs no archive command and
\* leaves the persisted manifest as it found it.
C3_ConsistencyGate ==
    \A p \in Procs :
        hist[p].mismatch =>
            /\ hist[p].sanify = 2
            /\ ~versions[p].sane
            /\ new_ver_dirs(versions[p]) = <<>>
            /\ pc[p] \in {"mailer", "atexit"}
            /\ rc[p] = 3
            /\ hist[p].deleted = {} /\ hist[p].created = {}
            /\ hist[p].archive = "none" /\ ~hist[p].cmd_run
            /\ ~hist[p].set_ver_dirs /\ hist[p].save = "none"
            /\ conf_ver_dirs = hist[p].conf_before
            /\ disk = versions[p].dirlist

\* C3 witness: a run that found a mismatch is about to exit
C3_Witness ==
    \E p \in Procs :
        /\ hist[p].mismatch
        /\ Ended(p)
        /\ disk # SetOf(conf_ver_dirs)

\* C4: a run that took the semaphore with disk = set(persisted manifest) gives
\* it up with disk = set(persisted manifest), at whichever step it ended.
C4_PersistedMatchesDisk ==
    \A p \in Procs :
        (hist[p].acquired /\ hist[p].startOK /\ hist[p].released) => hist[p].endOK

\* C5: a run that created the new version directory has, when backup() ends,
\* set the manifest to new_ver_dirs(), which holds the new name, and called
\* save(), however the archive step ended.
C5_ManifestAfterMkdir ==
    \A p \in Procs :
        (Ended(p) /\ hist[p].created # {}) =>
            /\ hist[p].set_ver_dirs
            /\ config[p].ver_dirs = versions[p].keepers
            /\ hist[p].created \subseteq SetOf(config[p].ver_dirs)
            /\ hist[p].save # "none"

\* C6: a run whose archive step failed exits with a non-zero status.
C6_ArchiveFailureIsFailure ==
    \A p \in Procs :
        (Ended(p) /\ hist[p].archive = "failed") =>
            /\ rc[p] \notin {None, 0}
            /\ ExitStatus(p) # 0

StepOrder == <<"execute", "wait", "load", "scan", "sanify", "prune", "mkdir", "archive",
               "set_ver_dirs", "save", "signal", "mailer", "atexit", "exited">>

Rank(step) == CHOOSE i \in 1..Len(StepOrder) : StepOrder[i] = step

\* rm -rf left a directory that prune() was to remove
PruneFailed(p) == versions[p].pruned /\ hist[p].deleted # hist[p].attempted

\* C17: the steps of a run occur only in the order wait, load, scan and sanify,
\* prune, mkdir, backup_version, set_ver_dirs and save, signal, each of them
\* reached from the one before it; a run in which wait(), load(), sanify(),
\* prune() or mkdir() failed launches no archive command and does not rewrite
\* the manifest.
C17_StepOrdering ==
    /\ [][\A p \in Procs :
            (pc'[p] # pc[p] /\ pc[p] \notin {"idle", "exited"}) =>
                /\ Rank(pc'[p]) > Rank(pc[p])
                /\ (pc'[p] \in Critical \cup {"signal"} => Rank(pc'[p]) = Rank(pc[p]) + 1)]_vars
    /\ [](\A p \in Procs :
            (rc[p] \in {1, 2, 3, 4, 5} \/ PruneFailed(p)) =>
                /\ hist[p].archive = "none" /\ ~hist[p].cmd_run
                /\ ~hist[p].set_ver_dirs /\ hist[p].save = "none")

\* C18: a run whose deletions, mkdir and save succeeded leaves, as it comes to
\* release the semaphore, at most num_versions directories under versions/
\* (num_versions in 1..10, also when it was lowered since the run before), the
\* directories are those of the persisted manifest, and the persisted manifest
\* is the trailing min(num_versions - 1, len) entries of the manifest the run
\* found, followed by the name of the directory the run made.
C18_BoundedSnapshots ==
    \A p \in Procs :
        (pc[p] = "signal" /\ hist[p].save = "ok" /\ hist[p].deleted = hist[p].attempted) =>
            LET old == hist[p].conf_before
                n == config[p].num_versions
                m == IF n - 1 < Len(old) THEN n - 1 ELSE Len(old)
            IN  /\ n \in 1..10
                /\ conf_num_versions = n
                /\ Cardinality(disk) <= n
                /\ disk = SetOf(conf_ver_dirs)
                /\ Cardinality(hist[p].created) = 1
                /\ \A id \in hist[p].created :
                      /\ conf_ver_dirs = Append(SubSeq(old, Len(old) - m + 1, Len(old)), id)
                      /\ id \notin SetOf(old)

\* C18 witness: a run with num_versions = 1 found three versions, which only a
\* run before it with num_versions = 3 can have left, removed them and saved
C18_Witness ==
    \E p \in Procs :
        /\ pc[p] = "signal" /\ hist[p].save = "ok"
        /\ config[p].num_versions = 1
        /\ Cardinality(hist[p].deleted) = 3
        /\ hist[p].deleted = hist[p].attempted
        /\ Cardinality(disk) = 1

\* C19: when rm -rf leaves one of the directories it was to remove, prune() has
\* still run rm -rf on every directory outside new_ver_dirs(), and it returns a
\* non-zero result, so that backup() returns 4 and goes no further.
C19_PruneReportsFailure ==
    \A p \in Procs :
        PruneFailed(p) =>
            /\ hist[p].attempted =
                    {d \in versions[p].dirlist : ~InList(d, new_ver_dirs(versions[p]))}
            /\ ret[p].op = "prune" /\ ret[p].val # 0
            /\ rc[p] = 4
            /\ pc[p] \in {"mailer", "atexit"}

\* C20: when sanify() finds the directories on disk equal to set(manifest), the
\* path of the next version does not exist and sanify() succeeds, never failing
\* with 3; when the path of the next version exists, sanify() fails with 3 and
\* the ledger does not become sane.
C20_NextPathFresh ==
    \A p \in Procs :
        LET v == versions[p]
        IN  (v.made /\ hist[p].sanify \in {0, 2, 3}) =>
              /\ (~hist[p].mismatch =>
                    /\ hist[p].sanify = 0
                    /\ v.sane
                    /\ v.nextdir.name \notin v.dirlist)
              /\ (pc[p] = "prune" => v.nextdir.name \notin disk \cup files)
              /\ (hist[p].sanify = 3 => ~v.sane /\ new_ver_dirs(v) = <<>>)

\* the version numbers of a manifest increase strictly from each entry to the next
StrictlyIncreasing(lst) ==
    /\ \A i \in 1..Len(lst) : IsDecimal(lst[i])
    /\ \A i, j \in 1..Len(lst) : i < j => int(lst[i]) < int(lst[j])

\* C21: on a target area that started with no version and an empty manifest,
\* after any runs (any num_versions, any outcome of the archive step) the
\* persisted manifest has no duplicate and its numbers increase strictly, and
\* the directory a run makes has a number above that of every directory made
\* before, so that the name of a pruned version is never used again.
C21_ManifestOrdered ==
    /\ [](/\ StrictlyIncreasing(conf_ver_dirs)
          /\ \A i, j \in 1..Len(conf_ver_dirs) :
                i # j => conf_ver_dirs[i] # conf_ver_dirs[j]
          /\ \A i \in 1..Len(conf_ver_dirs) : int(conf_ver_dirs[i]) <= maxid
          /\ \A d \in disk : IsDecimal(d) /\ int(d) <= maxid)
    /\ [][\A d \in disk' \ disk : int(d) > maxid /\ maxid' = int(d)]_vars

\* C21 witness: the manifest is ["3","4"], version 4 is being archived, and
\* versions 1 and 2 have been pruned
C21_Witness ==
    /\ conf_ver_dirs = << <<3>>, <<4>> >>
    /\ disk = {<<3>>, <<4>>}
    /\ maxid = 4
    /\ runs = 0

\* backup() of process p has returned, and the process is about to exit
Returned(p) == Ended(p) /\ (rc[p] # None \/ ~raised[p])

\* the step of the run that failed: the one backup() returned a code for,
\* else prune when rm -rf left a directory behind, else none (0)
FailedStep(p) == IF rc[p] # None THEN rc[p] ELSE IF PruneFailed(p) THEN 4 ELSE 0

\* C24: the exit status of a run tells which step failed: two runs in which
\* different steps failed (wait 1, load 2, sanify 3, prune 4, mkdir 5, save 6)
\* exit with different statuses, and a run with a failed step does not exit
\* with the status of a run in which no step failed.
C24_TypedResults ==
    \A p, q \in Procs :
        (Returned(p) /\ Returned(q) /\ FailedStep(p) # FailedStep(q)) =>
            ExitStatus(p) # ExitStatus(q)

\* C31: sanify() changes nothing but its own object: the step in which a run
\* calls it, whether it succeeds, fails or raises, leaves the list the caller
\* passed, the rest of the configuration, the directories and files under
\* versions/ and the persisted buver.conf as they were; the ver_dirs of a
\* loaded configuration changes only at set_ver_dirs(), to new_ver_dirs(), and
\* its logical_versions never; the persisted manifest changes only in a
\* save() that succeeds, to the ver_dirs of the run that saves.
C31_ValidateFrame ==
    /\ [][\A p \in Procs :
            (pc[p] = "sanify" /\ pc'[p] # "sanify") =>
                /\ config'[p] = config[p]
                /\ UNCHANGED <<disk, files, verdir_isdir, conf_ver_dirs, conf_num_versions>>]_vars
    /\ [][\A p \in Procs :
            (config[p].loaded /\ config'[p].loaded) =>
                /\ config'[p].logical_versions = config[p].logical_versions
                /\ (config'[p].ver_dirs # config[p].ver_dirs) =>
                      /\ pc[p] = "set_ver_dirs" /\ pc'[p] = "save"
                      /\ config'[p].ver_dirs = new_ver_dirs(versions[p])]_vars
    /\ [][(conf_ver_dirs' # conf_ver_dirs) =>
            \E p \in Procs :
                /\ pc[p] = "save" /\ ret'[p] = Ret("save", 0)
                /\ conf_ver_dirs' = config[p].ver_dirs]_vars

\* C31 witness: sanify() has succeeded on a manifest of two names that
\* num_versions = 3 keeps whole, and the list the run passed is still the
\* persisted manifest
C31_Witness ==
    \E p \in Procs :
        /\ pc[p] = "prune" /\ ret[p] = Ret("sanify", 0)
        /\ Len(config[p].logical_versions) = 2
        /\ config[p].num_versions = 3
        /\ versions[p].keepers = Append(config[p].logical_versions, versions[p].nextdir.name)
        /\ config[p].logical_versions = conf_ver_dirs

(***************************************************************************)
(* Properties of the semaphore                                             *)
(***************************************************************************)
Holders == {p \in Procs : got_sem(p)}

\* a step in which process p comes to hold the semaphore
Acquires(p) == ~sem_locked[p] /\ sem_locked'[p]

\* a step of process p inside the loop of wait()
WaitStep(p) == pc[p] = "wait" /\ <<attempt[p], sem_locked[p], pc[p]>>' # <<attempt[p], sem_locked[p], pc[p]>>

\* C1: at most one instance has sem_locked true at any time; an instance comes
\* to hold the semaphore only by a try that found the marker file absent, that
\* try makes it the only holder, and a try made while the file exists is counted
\* and repeated until the tries are used up, when wait() fails without the lock.
C1_MutualExclusion ==
    /\ [](Cardinality(Holders) <= 1)
    /\ [](\A p \in Procs : got_sem(p) => marker = p)
    /\ [][\A p \in Procs :
            /\ Acquires(p) =>
                  /\ marker = 0 /\ marker' = p
                  /\ \A q \in Procs \ {p} : ~sem_locked[q] /\ ~sem_locked'[q]
            /\ (WaitStep(p) /\ marker # 0) =>
                  /\ ~Acquires(p)
                  /\ IF attempt[p] < maxtries
                     THEN attempt'[p] = attempt[p] + 1 /\ pc'[p] = "wait"
                     ELSE ret'[p] = Ret("wait", PyTrue) /\ pc'[p] # "wait"]_vars

\* C1 witness: one instance holds the semaphore while the other, having called
\* wait() on the free marker as well, has failed a try and is retrying
C1_Witness ==
    \E p, q \in Procs :
        /\ p # q
        /\ got_sem(p) /\ marker = p
        /\ pc[q] = "wait" /\ attempt[q] > 1 /\ ~got_sem(q)

SignalCall(p) == ret'[p].op = "signal" /\ ret'[p] # ret[p]

\* C14: signal() on an object that does not hold the semaphore (it never called
\* wait(), its wait() gave up, or it has released already) returns True and
\* changes nothing: the marker file of another holder stays.
C14_ReleaseNotHeld ==
    /\ [](\A p \in Procs : ret[p] = Ret("signal", PyTrue) => ~got_sem(p) /\ marker # p)
    /\ [][\A p \in Procs :
            (SignalCall(p) /\ ~sem_locked[p]) =>
                  /\ ret'[p] = Ret("signal", PyTrue)
                  /\ marker' = marker
                  /\ sem_locked' = sem_locked
                  /\ attempt' = attempt]_vars

\* C14 witness: an object whose wait() gave up has called signal() while the
\* other object holds the semaphore
C14_Witness ==
    \E p, q \in Procs :
        /\ p # q
        /\ ret[p] = Ret("signal", PyTrue) /\ attempt[p] = maxtries
        /\ got_sem(q) /\ marker = q

\* C15: wait(maxtries) gives up only after maxtries calls of os.open, and every
\* one of its first maxtries tries that finds the marker file absent takes the
\* semaphore.
C15_BoundedAcquisition ==
    [][\A p \in Procs :
          WaitStep(p) =>
              /\ (ret'[p] = Ret("wait", PyTrue) => hist[p].tries = maxtries)
              /\ ((hist[p].tries < maxtries /\ marker = 0) => sem_locked'[p])]_vars

\* a call of wait() by process p that returns at once
WaitCall(p) == ret'[p].op = "wait" /\ ret'[p] # ret[p] /\ pc[p] # "wait"

\* C16: wait() on a directory that does not exist returns True at once: it makes
\* no call of os.open, does not enter its loop, creates no marker file and leaves
\* got_sem() false.
C16_InvalidRoot ==
    /\ [](~sem_path_isdir =>
            /\ marker = 0
            /\ \A p \in Procs : ~got_sem(p) /\ pc[p] # "wait" /\ hist[p].tries = 0)
    /\ [][\A p \in Procs :
            (WaitCall(p) /\ ~sem_path_isdir) =>
                  /\ ret'[p] = Ret("wait", PyTrue)
                  /\ marker' = marker
                  /\ ~sem_locked'[p]
                  /\ pc'[p] = pc[p]
                  /\ hist'[p].tries = 0]_vars

\* C16 witness: wait() has returned True on a directory that does not exist
C16_Witness ==
    /\ ~sem_path_isdir
    /\ \E p \in Procs : ret[p] = Ret("wait", PyTrue) /\ attempt[p] = 1

\* C27: a waiter that has failed at least one try and has made fewer than
\* maxtries tries takes the semaphore on its next step in the loop when the
\* holder has removed the marker file and nobody else has created it.
C27_WaiterProgress ==
    [][\A q \in Procs :
          (WaitStep(q) /\ marker = 0 /\ hist[q].tries >= 1 /\ hist[q].tries < maxtries) =>
              /\ sem_locked'[q] /\ marker' = q
              /\ ret'[q] = Ret("wait", PyFalse)]_vars

\* a step taken by process p: one of its calls starts, goes on or returns
StepOf(p) == <<ret[p], attempt[p], pc[p]>>' # <<ret[p], attempt[p], pc[p]>>

\* C29: in every state between calls of wait() and signal(), an object whose
\* got_sem() is true has its own marker file on disk; got_sem() of an object
\* changes only in a step of its own wait() that returns False or of its own
\* signal() that returns False, never in a step of another object.
C29_FlagMarker ==
    /\ [](\A p \in Procs : got_sem(p) => (marker # 0 /\ marker = p))
    /\ [][\A p \in Procs :
            (sem_locked'[p] # sem_locked[p]) =>
                /\ StepOf(p)
                /\ \A q \in Procs \ {p} : ~StepOf(q) /\ sem_locked'[q] = sem_locked[q]
                /\ IF sem_locked'[p]
                   THEN pc[p] = "wait" /\ ret'[p] = Ret("wait", PyFalse)
                   ELSE ret'[p] = Ret("signal", PyFalse)
         ]_vars
    /\ [][\A p \in Procs :
            (StepOf(p) /\ ret'[p] \notin {Ret("wait", PyFalse), Ret("signal", PyFalse)}) =>
                sem_locked'[p] = sem_locked[p]]_vars

\* C29 witness: the holder has called wait() again, which used up its tries on
\* its own marker file, and the other object has called signal(): the holder
\* still holds and its file is still there
C29_Witness ==
    \E p, q \in Procs :
        /\ p # q
        /\ ret[p] = Ret("wait", PyTrue) /\ got_sem(p) /\ marker = p
        /\ ret[q] = Ret("signal", PyTrue)

(***************************************************************************)
(* Properties of the ledger                                                *)
(***************************************************************************)
Min(a, b) == IF a < b THEN a ELSE b

\* retainedIds() without its last entry
RetentionWindow(v) == SubSeq(new_ver_dirs(v), 1, Len(new_ver_dirs(v)) - 1)

\* C8: after a successful sanify(num_versions, manifest) the retention window is
\* the trailing min(num_versions - 1, len(manifest)) entries of the manifest, in
\* manifest order, empty for num_versions = 1; every older entry that is not kept
\* is handed to the one prune() pass; count 3 with manifest [1,2,3,4] gives
\* [3,4] and retained [3,4,5]; count 1 with manifest [7] gives [] and [8].
C8_RetentionWindow ==
    \A p \in Procs :
        LET v == versions[p]
            lv == config[p].logical_versions
            n == config[p].num_versions
            m == Min(n - 1, Len(lv))
            w == RetentionWindow(v)
        IN  v.sane =>
              /\ n \in 1..10
              /\ Len(w) = m
              /\ \A i \in 1..m : w[i] = lv[Len(lv) - m + i]
              /\ (n = 1 => w = <<>>)
              /\ (~v.pruned =>
                    \A i \in 1..(Len(lv) - m) :
                        lv[i] \in PruneTargets(v) \/ InList(lv[i], new_ver_dirs(v)))
              /\ (n = 3 /\ lv = << <<1>>, <<2>>, <<3>>, <<4>> >> =>
                    /\ w = << <<3>>, <<4>> >>
                    /\ new_ver_dirs(v) = << <<3>>, <<4>>, <<5>> >>
                    /\ (~v.pruned => PruneTargets(v) = {<<1>>, <<2>>}))
              /\ (n = 1 /\ lv = << <<7>> >> =>
                    /\ w = <<>>
                    /\ new_ver_dirs(v) = << <<8>> >>)

\* C8 witness: count 3 was validated against the manifest [1,2,3,4]
C8_Witness ==
    \E p \in Procs :
        /\ versions[p].sane
        /\ config[p].num_versions = 3
        /\ config[p].logical_versions = << <<1>>, <<2>>, <<3>>, <<4>> >>
        /\ ret[p] = Ret("sanify", 0)

\* C9: after a successful sanify(num_versions, manifest) with num_versions in
\* 1..10, retainedIds() has at most num_versions entries and each of them other
\* than the next id is an entry of the manifest.
C9_RetainedBounded ==
    \A p \in Procs :
        LET v == versions[p]
            lv == config[p].logical_versions
            n == config[p].num_versions
            kept == new_ver_dirs(v)
        IN  v.sane =>
              /\ n \in 1..10
              /\ Len(kept) <= n
              /\ \A i \in 1..Len(kept) :
                    kept[i] # v.nextdir.name => InList(kept[i], lv)

\* C9 witness: a validated ledger that retains exactly num_versions >= 3 ids
C9_Witness ==
    \E p \in Procs :
        /\ versions[p].sane
        /\ config[p].num_versions >= 3
        /\ Len(new_ver_dirs(versions[p])) = config[p].num_versions
        /\ Len(config[p].logical_versions) > config[p].num_versions

\* C10: after a successful sanify the next id is the decimal successor of the
\* manifest's last entry, or "1" for an empty manifest; it is the last entry of
\* retainedIds(), and new_version() is versions/<next id>; an empty versions
\* directory with an empty manifest gives retainedIds() = ["1"] and an empty window.
C10_NextId ==
    \A p \in Procs :
        LET v == versions[p]
            lv == config[p].logical_versions
            kept == new_ver_dirs(v)
            nextId == v.nextdir.name
        IN  v.sane =>
              /\ kept # <<>> /\ kept[Len(kept)] = nextId
              /\ new_version(v) = [dir |-> "versions", name |-> nextId]
              /\ IsDecimal(nextId) /\ nextId[1] # 0
              /\ (lv = <<>> => nextId = <<1>>)
              /\ (lv # <<>> => int(nextId) = int(lv[Len(lv)]) + 1)
              /\ (lv # <<>> /\ lv[Len(lv)] = <<9>> => nextId = <<1, 0>>)
              /\ (lv # <<>> /\ lv[Len(lv)] = <<0, 7>> => nextId = <<8>>)
              /\ (lv # <<>> /\ lv[Len(lv)] = <<1, 9>> => nextId = <<2, 0>>)
              /\ (lv # <<>> /\ lv[Len(lv)] = <<4>> => nextId = <<5>>)
              /\ (lv = <<>> /\ v.dirlist = {} =>
                    kept = << <<1>> >> /\ RetentionWindow(v) = <<>>)

\* C10 witness: the manifest ["9"] was validated and the next id carries to "10"
C10_Witness ==
    \E p \in Procs :
        /\ versions[p].sane
        /\ config[p].logical_versions = << <<9>> >>
        /\ new_version(versions[p]) = JoinVerdir(<<1, 0>>)

\* a call of prune() by process p that returns
PruneCall(p) ==
    /\ ret'[p].op = "prune"
    /\ <<ret[p], versions[p], disk>>' # <<ret[p], versions[p], disk>>

\* the directories found on disk that retainedIds() does not hold
NotRetained(v) == {d \in v.dirlist : ~InList(d, new_ver_dirs(v))}

\* C11: prune() on a validated ledger hands to rm -rf exactly the directories
\* found on disk that are not in new_ver_dirs(); it removes none that is in
\* new_ver_dirs(), and when every rm -rf does its work the directories left are
\* the retained ones; any further prune() on the instance removes nothing and
\* returns the error 2.
C11_PruneExactlyOnce ==
    /\ [](\A p \in Procs :
            LET v == versions[p]
            IN  v.pruned =>
                  /\ v.sane
                  /\ hist[p].attempted = NotRetained(v)
                  /\ hist[p].deleted \subseteq hist[p].attempted
                  /\ hist[p].deleted \cap SetOf(new_ver_dirs(v)) = {}
                  /\ (hist[p].deleted = hist[p].attempted =>
                        disk = v.dirlist \cap SetOf(new_ver_dirs(v))))
    /\ [][\A p \in Procs :
            LET v == versions[p]
            IN  (PruneCall(p) /\ v.sane) =>
                  IF ~v.pruned
                  THEN /\ ret'[p] = Ret("prune", 0)
                       /\ versions'[p].pruned
                       /\ disk' \subseteq disk
                       /\ disk \ disk' \subseteq NotRetained(v)
                       /\ disk' \cap SetOf(new_ver_dirs(v)) = disk \cap SetOf(new_ver_dirs(v))
                  ELSE /\ ret'[p] = Ret("prune", 2)
                       /\ disk' = disk
                       /\ versions' = versions
                       /\ hist' = hist]_vars

\* C11 witness: prune() removed two directories, and a second call returned 2
C11_Witness ==
    \E p \in Procs :
        /\ ret[p] = Ret("prune", 2)
        /\ Cardinality(hist[p].deleted) >= 2
        /\ hist[p].deleted = hist[p].attempted
        /\ disk # {}

\* C12: on a ledger object on which no sanify() has succeeded (never called, or
\* failed with 1, 2 or 3, or raised), new_ver_dirs() is the empty list,
\* new_version() is the path versions/INVALID_STATE, which names no version,
\* and prune() removes nothing and returns the error 1.
C12_UnvalidatedLedger ==
    /\ [](\A p \in Procs :
            LET v == versions[p]
            IN  (v.made /\ ~v.sane) =>
                  /\ new_ver_dirs(v) = <<>>
                  /\ new_version(v) = JoinVerdir(INVALID_STATE)
                  /\ ~IsDecimal(new_version(v).name)
                  /\ PruneRc(v) = 1
                  /\ PruneTargets(v) = {}
                  /\ ~v.pruned
                  /\ hist[p].attempted = {} /\ hist[p].deleted = {})
    /\ [][\A p \in Procs :
            (PruneCall(p) /\ ~versions[p].sane) =>
                  /\ ret'[p] = Ret("prune", 1)
                  /\ disk' = disk
                  /\ versions' = versions
                  /\ hist' = hist]_vars

\* C12 witness: sanify() failed with 3 after it had set keepers and nextdir,
\* and prune() was then called
C12_Witness ==
    \E p \in Procs :
        /\ ret[p] = Ret("prune", 1)
        /\ ~versions[p].sane
        /\ versions[p].keepers # <<>>
        /\ versions[p].nextdir.name \in disk

\* C22: a ledger object made on a versions directory that does not exist has
\* no physical view: sanify() on it fails with 1 for every manifest, the empty
\* one included, the object never becomes sane, prune() returns 1 and removes
\* nothing, and new_ver_dirs() is empty.
C22_MissingRoot ==
    \A p \in Procs :
        LET v == versions[p]
        IN  (v.made /\ ~verdir_isdir) =>
              /\ ~v.pview /\ ~v.sane /\ ~v.pruned
              /\ ret[p].op \in {"sanify", "sanify raised"} => ret[p] = Ret("sanify", 1)
              /\ ret[p].op = "prune" => ret[p].val = 1
              /\ new_ver_dirs(v) = <<>>
              /\ PruneTargets(v) = {}
              /\ hist[p].attempted = {} /\ hist[p].deleted = {}

\* C22 witness: sanify() with the empty manifest has failed on a versions
\* directory that does not exist
C22_Witness ==
    \E p \in Procs :
        /\ ~verdir_isdir
        /\ config[p].logical_versions = <<>>
        /\ ret[p] = Ret("sanify", 1)

\* C23: the result of sanify(), the next name and the retention window are the
\* same for every order in which os.listdir() can have returned the
\* directories: each of them is what the call gives on that listing, for the
\* same manifest and num_versions.
C23_Deterministic ==
    \A p \in Procs :
        LET v == versions[p]
        IN  ret[p].op \in {"sanify", "sanify raised"} =>
              \A listing \in Listings(v.dirlist) :
                  LET r == SanifySeq(v.pview, listing, config[p].num_versions,
                                     config[p].logical_versions)
                  IN  /\ r.rc = ret[p].val
                      /\ r.raised = (ret[p].op = "sanify raised")
                      /\ (r.rc = 0 =>
                            /\ r.sets_sane /\ v.sane
                            /\ r.keepers = new_ver_dirs(v)
                            /\ r.nextdir = new_version(v)
                            /\ SubSeq(r.keepers, 1, Len(r.keepers) - 1) = RetentionWindow(v))

\* C23 witness: sanify() succeeded on three directories, which os.listdir()
\* returns in one of six orders
C23_Witness ==
    \E p \in Procs :
        /\ ret[p] = Ret("sanify", 0)
        /\ Cardinality(versions[p].dirlist) = 3
        /\ config[p].num_versions = 2

\* C26: sanify() on an object with a physical view succeeds only if the set
\* of directories equals the set of manifest entries, fails with 2 exactly
\* when the two differ, and reports every directory that is not listed and
\* every listed name that has no directory: directories 1 and 2 with the
\* manifest ['1', '3'] fail with 2, reporting 2 as unlisted and 3 as missing.
C26_ExactMatch ==
    \A p \in Procs :
        LET v == versions[p]
            lv == config[p].logical_versions
        IN  (ret[p].op = "sanify" /\ v.pview) =>
              /\ ret[p].val = 0 => v.dirlist = SetOf(lv)
              /\ ret[p].val = 2 <=> v.dirlist # SetOf(lv)
              /\ hist[p].unlisted = v.dirlist \ SetOf(lv)
              /\ hist[p].missing = SetOf(lv) \ v.dirlist
              /\ (v.dirlist = {<<1>>, <<2>>} /\ lv = << <<1>>, <<3>> >>) =>
                    /\ ret[p].val = 2
                    /\ hist[p].unlisted = {<<2>>}
                    /\ hist[p].missing = {<<3>>}

\* C26 witness: sanify() has run on the directories 1 and 2 with the manifest
\* ['1', '3']
C26_Witness ==
    \E p \in Procs :
        /\ ret[p].op = "sanify"
        /\ versions[p].dirlist = {<<1>>, <<2>>}
        /\ config[p].logical_versions = << <<1>>, <<3>> >>
        /\ hist[p].unlisted = {<<2>>}

\* C28: readiness follows the latest sanify(): once a call of sanify() has
\* failed the object is not sane, new_ver_dirs() is empty and prune() has
\* nothing to remove, whatever an earlier call returned.
C28_LatestValidation ==
    \A p \in Procs :
        LET v == versions[p]
        IN  (ret[p].op = "sanify" /\ ret[p].val # 0) =>
              /\ ~v.sane
              /\ new_ver_dirs(v) = <<>>
              /\ PruneTargets(v) = {}
              /\ PruneRc(v) = 1

(***************************************************************************)
(* Properties of initialize runs                                           *)
(***************************************************************************)
\* check_dir() found a directory or a file in the target location
NonEmpty(found) == found[1] > 0 \/ found[2] > 0

\* initialize() of process p has returned
Initialized(p) == pc[p] \in {"atexit", "exited"}

\* the thing initialize() makes is there
Exists(x) ==
    IF x = "tgt" THEN sem_path_isdir
    ELSE IF x = "logs" THEN logs_isdir
    ELSE IF x = "versions" THEN verdir_isdir
    ELSE conf_isfile

\* C25: initialize() on a target location in which check_dir() found a file or
\* a directory returns 2 without calling wait() and without creating anything,
\* and no step of it changes the target location; when initialize() returns 0
\* the location was missing or empty, logs, versions and a buver.conf with the
\* defaults and an empty ver_dirs exist, and the semaphore has been released.
C25_InitializeGuard ==
    /\ [](\A p \in Procs :
            /\ NonEmpty(hist[p].found) =>
                  /\ Initialized(p) /\ rc[p] = 2
                  /\ ~hist[p].acquired /\ hist[p].tries = 0 /\ ret[p].op # "wait"
                  /\ ~got_sem(p) /\ marker # p
                  /\ hist[p].made = {}
            /\ (Initialized(p) /\ rc[p] = 0) =>
                  /\ ~NonEmpty(hist[p].found)
                  /\ sem_path_isdir /\ logs_isdir /\ verdir_isdir /\ conf_isfile
                  /\ conf_ver_dirs = <<>> /\ conf_num_versions = 10 /\ disk = {}
                  /\ hist[p].acquired /\ hist[p].released
                  /\ ~got_sem(p) /\ marker # p)
    /\ [][\A p \in Procs :
            (StepOf(p) /\ NonEmpty(hist'[p].found)) =>
                UNCHANGED <<marker, tgtVars, fsVars>>]_vars

\* C25 witness: one run made the missing target location and initialized it,
\* and another run found it not empty and returned 2
C25_Witness ==
    \E p, q \in Procs :
        /\ p # q
        /\ pc[p] = "exited" /\ rc[p] = 0 /\ hist[p].found = <<-1, -1>>
        /\ pc[q] = "exited" /\ rc[q] = 2 /\ NonEmpty(hist[q].found)

\* C30: of two initialize() runs on one target location at most one returns 0;
\* the logs directory, the versions directory and buver.conf are each made by
\* one run only, the one that returns 0 having made all three; a run makes
\* only what was not there, and a buver.conf that exists is never written
\* again.
C30_ConcurrentInitialize ==
    /\ [](\A p, q \in Procs :
            p # q =>
                /\ ~(rc[p] = 0 /\ rc[q] = 0)
                /\ hist[p].made \cap hist[q].made = {})
    /\ [](\A p \in Procs :
            (Initialized(p) /\ rc[p] = 0) => {"logs", "versions", "conf"} \subseteq hist[p].made)
    /\ [][\A p \in Procs :
            \A x \in hist'[p].made \ hist[p].made : ~Exists(x) /\ Exists(x)']_vars
    /\ [][conf_isfile => (conf_isfile' /\ UNCHANGED <<conf_ver_dirs, conf_num_versions>>)]_vars

\* C30 witness: both runs found the target location empty; one initialized it
\* and returned 0, the other took the semaphore after it and returned 4
C30_Witness ==
    \E p, q \in Procs :
        /\ p # q
        /\ pc[p] = "exited" /\ rc[p] = 0 /\ hist[p].found = <<0, 0>>
        /\ pc[q] = "exited" /\ rc[q] = 4 /\ hist[q].found = <<0, 0>> /\ hist[q].acquired

====
